---------------------------- MODULE Spec2Model ----------------------------
(***************************************************************************)
(* The transform state machine of the Zoom component (src/README.md,       *)
(* lines 110-425, the text of src/Zoom.tsx): committed and live scale and  *)
(* translation, the layout callbacks, the pinch, pan and double-tap        *)
(* handlers and the Animated composite animations they start.              *)
(*                                                                         *)
(* The code computes with JavaScript numbers.  The model computes with the  *)
(* same IEEE-754 doubles: every number it holds is the double the code     *)
(* holds, and every sum, difference, product and quotient is rounded as    *)
(* the code's is.  Lengths are in pixels, velocities in pixels per second. *)
(***************************************************************************)
EXTENDS Integers, Sequences, FiniteSets, TLC

-----------------------------------------------------------------------------
(* Numbers.  A JavaScript number is an IEEE-754 double.  The magnitude of a  *)
(* double is held in two words of 28 binary digits.  Sums, differences,      *)
(* products and quotients are computed on the magnitudes to 56 binary        *)
(* digits and a note of what is left below them, and then rounded to the 53  *)
(* binary digits of a double, to nearest, ties to even, with gradual         *)
(* underflow and overflow to Infinity.  Numbers of few binary digits, the    *)
(* integers and halves among them, are added, multiplied and compared as     *)
(* integers, which is exact.  A zero keeps its sign: -0 equals 0 in every     *)
(* comparison, Math.max and Math.min order them, and a quotient by -0 is an  *)
(* infinity of the other sign.                                               *)

IAbs(i) == IF i < 0 THEN -i ELSE i

Sgn(i) == IF i < 0 THEN -1 ELSE IF i = 0 THEN 0 ELSE 1

IMax(i, j) == IF i < j THEN j ELSE i

\* binary digits in a word of a magnitude, and 2^WordBits
WordBits == 28

Word == 268435456

\* binary digits in half a word, and 2^HalfBits
HalfBits == 14

Half == 16384

\* binary digits of the significand of a double
Precision == 53

\* binary digits kept of a sum, product or quotient before it is rounded
WindowBits == 56

\* the exponent of the least positive double, 2^MinExponent
MinExponent == -1074

\* every finite double is below 2^MaxTop
MaxTop == 1024

\* the exponent field of a value that is not finite
NotFinite == 9999

\* number of binary digits of i < Half
HalfLength(i) ==
    IF i < 128
      THEN (IF i < 8
              THEN (IF i < 2 THEN i ELSE IF i < 4 THEN 2 ELSE 3)
            ELSE IF i < 32 THEN (IF i < 16 THEN 4 ELSE 5)
            ELSE IF i < 64 THEN 6 ELSE 7)
    ELSE IF i < 2048
      THEN (IF i < 512 THEN (IF i < 256 THEN 8 ELSE 9)
            ELSE IF i < 1024 THEN 10 ELSE 11)
    ELSE IF i < 8192 THEN (IF i < 4096 THEN 12 ELSE 13)
    ELSE 14

\* number of binary digits of the natural number i, of more than k and at
\* most k + HalfBits binary digits
IntBitsFrom(i, k) == k + HalfLength(i \div 2^k)

\* number of binary digits of the natural number i
IntBits(i) ==
    IntBitsFrom(i, IF i < Half THEN 0 ELSE IF i < Word THEN HalfBits
                   ELSE WordBits)

\* number of zero binary digits at the low end of i > 0
RECURSIVE IntZeros(_)
IntZeros(i) ==
    IF i % 2 = 1 THEN 0
    ELSE IF i % 4 = 2 THEN 1
    ELSE IF i % 8 = 4 THEN 2
    ELSE IF i % 16 = 8 THEN 3
    ELSE 4 + IntZeros(i \div 16)

-----------------------------------------------------------------------------
(* A magnitude is a pair <<h, l>> of naturals, the number h * Word + l with  *)
(* l < Word.                                                                 *)

\* number of binary digits of p, whose highest word that is not 0 is p[j]
PairBitsWord(p, j) == (2 - j) * WordBits + IntBits(p[j])

\* number of binary digits of p
PairBits(p) == PairBitsWord(p, IF p[1] = 0 THEN 2 ELSE 1)

\* number of zero binary digits at the low end of p # 0
PairZeros(p) ==
    IF p[2] # 0 THEN IntZeros(p[2]) ELSE WordBits + IntZeros(p[1])

\* the magnitude of the natural number n
PairOf(n) == <<n \div Word, n % Word>>

\* p \div 2^k for p below 2^58
PairRight(p, k) ==
    IF k = 0 THEN p
    ELSE IF k < 28
      THEN <<p[1] \div 2^k, (p[2] \div 2^k) + (p[1] % 2^k) * 2^(28 - k)>>
    ELSE IF k < 58 THEN PairOf(p[1] \div 2^(k - 28))
    ELSE <<0, 0>>

\* p * 2^k for a product below 2^58
PairLeft(p, k) ==
    IF k = 0 THEN p
    ELSE IF k < 28
      THEN <<p[1] * 2^k + (p[2] \div 2^(28 - k)), (p[2] % 2^(28 - k)) * 2^k>>
    ELSE <<p[2] * 2^(k - 28), 0>>

\* the k lowest binary digits of p are 0
PairLowZero(p, k) ==
    IF k <= 0 THEN TRUE
    ELSE IF k < 28 THEN p[2] % 2^k = 0
    ELSE IF k < 58 THEN p[2] = 0 /\ p[1] % 2^(k - 28) = 0
    ELSE p = <<0, 0>>

\* binary digit k of p, the lowest being digit 0
PairBit(p, k) ==
    IF k < 28 THEN (p[2] \div 2^k) % 2
    ELSE IF k < 58 THEN (p[1] \div 2^(k - 28)) % 2
    ELSE 0

PairLess(p, q) == p[1] < q[1] \/ (p[1] = q[1] /\ p[2] < q[2])

PairAdd(p, q) ==
    <<p[1] + q[1] + ((p[2] + q[2]) \div Word), (p[2] + q[2]) % Word>>

\* p - q for p >= q
PairSub(p, q) ==
    IF p[2] >= q[2] THEN <<p[1] - q[1], p[2] - q[2]>>
    ELSE <<p[1] - q[1] - 1, p[2] - q[2] + Word>>

\* the words, lowest first, of the product of p and q below 2^56: the
\* columns c1..c7 of the products of their halves, each with the carry of
\* the column before
Product(p, q) ==
    LET a1 == p[2] % Half
        a2 == p[2] \div Half
        a3 == p[1] % Half
        a4 == p[1] \div Half
        b1 == q[2] % Half
        b2 == q[2] \div Half
        b3 == q[1] % Half
        b4 == q[1] \div Half
        c1 == a1 * b1
        c2 == a1 * b2 + a2 * b1 + (c1 \div Half)
        c3 == a1 * b3 + a2 * b2 + a3 * b1 + (c2 \div Half)
        c4 == a1 * b4 + a2 * b3 + a3 * b2 + a4 * b1 + (c3 \div Half)
        c5 == a2 * b4 + a3 * b3 + a4 * b2 + (c4 \div Half)
        c6 == a3 * b4 + a4 * b3 + (c5 \div Half)
        c7 == a4 * b4 + (c6 \div Half)
    IN  <<(c1 % Half) + (c2 % Half) * Half, (c3 % Half) + (c4 % Half) * Half,
          (c5 % Half) + (c6 % Half) * Half, c7>>

\* number of binary digits of the words ws, lowest first, whose highest
\* word that is not 0 is ws[j]
WordsBitsWord(ws, j) == (j - 1) * WordBits + IntBits(ws[j])

\* number of binary digits of the words ws, lowest first
WordsBits(ws) ==
    WordsBitsWord(ws, IF ws[4] # 0 THEN 4 ELSE IF ws[3] # 0 THEN 3
                      ELSE IF ws[2] # 0 THEN 2 ELSE 1)

\* <<p, r, lost>> for the words ws and r = 28 * q + k with k < 28: p is
\* ws \div 2^r, lost says that a binary digit dropped is 1
WindowWords(ws, q, k, r) ==
    <<<<(ws[q + 2] \div 2^k) + (ws[q + 3] % 2^k) * 2^(28 - k),
        (ws[q + 1] \div 2^k) + (ws[q + 2] % 2^k) * 2^(28 - k)>>,
      r,
      ws[q + 1] % 2^k # 0 \/ \E j \in 1..q : ws[j] # 0>>

WindowAt(ws, r) ==
    IF r = 0 THEN <<<<ws[2], ws[1]>>, 0, FALSE>>
    ELSE WindowWords(ws \o <<0, 0>>, r \div 28, r % 28, r)

\* the WindowBits highest binary digits of the four words ws
Window(ws) == WindowAt(ws, IMax(WordsBits(ws) - WindowBits, 0))

-----------------------------------------------------------------------------
(* A double is <<s, e, h, l>>: the number s * m * 2^e with s its sign, 1 or  *)
(* -1, and m = h * Word + l an odd magnitude of at most 53 binary digits; m  *)
(* and e are 0 for the zeros 0 and -0.  NaN has the sign 0.                  *)

Zero == <<1, 0, 0, 0>>

NegZero == <<-1, 0, 0, 0>>

\* the zero of sign s
ZeroOf(s) == <<s, 0, 0, 0>>

NaN == <<0, NotFinite, 0, 0>>

Infinity(s) == <<s, NotFinite, 0, 0>>

IsFinite(a) == a[2] # NotFinite

\* a is 0 or -0: the magnitude of every other finite double is odd
IsZero(a) == a[4] = 0 /\ a[2] # NotFinite

IsNaN(a) == a[2] = NotFinite /\ a[1] = 0

IsInf(a) == a[2] = NotFinite /\ a[1] # 0

\* the magnitude m of a
Mant(a) == <<a[3], a[4]>>

\* 2^Top(a) is the least power of two above the finite a # 0
Top(a) == a[2] + PairBits(Mant(a))

\* s * p * 2^e for an odd p, Infinity from 2^MaxTop on
Pack(s, p, e) ==
    IF e + PairBits(p) > MaxTop THEN Infinity(s) ELSE <<s, e, p[1], p[2]>>

\* s * p * 2^e for p # 0 with t zero binary digits at its low end
Strip(s, p, e, t) == Pack(s, PairRight(p, t), e + t)

\* s * p * 2^e for a magnitude p of at most 53 binary digits (or 2^53) and
\* e >= MinExponent; the zero of sign s for p = 0
Canonical(s, p, e) ==
    IF p = <<0, 0>> THEN ZeroOf(s) ELSE Strip(s, p, e, PairZeros(p))

\* v * 2^e for an integer v below 2^31 in magnitude, the product finite
FromIntZeros(s, n, e, t) ==
    <<s, e + t, (n \div 2^t) \div Word, (n \div 2^t) % Word>>

FromInt(v, e) ==
    IF v = 0 THEN Zero
    ELSE FromIntZeros(Sgn(v), IAbs(v), e, IntZeros(IAbs(v)))

\* a is finite, not 0, and its magnitude is below Half
Small(a) == a[3] = 0 /\ a[4] > 0 /\ a[4] < Half

\* the exponents i and j are at most 15 apart and neither is above 900:
\* magnitudes below Half at these exponents align, add and multiply within
\* 30 binary digits and far below 2^MaxTop
Near(i, j) == i - j <= 15 /\ j - i <= 15 /\ i <= 900 /\ j <= 900

\* a as an integer multiple of 2^e, for Small(a) and e <= a[2] <= e + 15
Aligned(a, e) == a[1] * a[4] * 2^(a[2] - e)

\* Rounding to nearest, ties to even, goes up: of p + f, f a fraction in
\* [0, 1) that is not 0 iff sticky, the drop lowest binary digits are more
\* than half of digit drop, or half of it and digit drop is 1.
RoundsUp(p, drop, sticky) ==
    /\ drop > 0
    /\ PairBit(p, drop - 1) = 1
    /\ sticky \/ ~PairLowZero(p, drop - 1) \/ PairBit(p, drop) = 1

\* s * (kept + 1) * 2^e if up, s * kept * 2^e if not
RoundKept(s, kept, e, up) ==
    Canonical(s, IF up THEN PairAdd(kept, <<0, 1>>) ELSE kept, e)

\* s * (p + f) * 2^e rounded to a multiple of 2^(e + drop)
RoundDrop(s, p, e, sticky, drop) ==
    RoundKept(s, PairRight(p, drop), e + drop, RoundsUp(p, drop, sticky))

\* the double nearest to s * (p + f) * 2^e, f a fraction in [0, 1) that is
\* not 0 iff sticky: 53 binary digits, none below 2^MinExponent.  With
\* sticky, p has at least 55 binary digits.
Round(s, p, e, sticky) ==
    RoundDrop(s, p, e, sticky,
              IMax(IMax(PairBits(p) - Precision, MinExponent - e), 0))

\* the integer i
Q(i) == FromInt(i, 0)

Neg(a) == <<-a[1], a[2], a[3], a[4]>>

MathAbs(a) == <<IAbs(a[1]), a[2], a[3], a[4]>>

\* |a| < |b| for Small(a) and Small(b) at exponents at most 15 apart, e the
\* lesser exponent
LessSmall(a, b, e) == IAbs(Aligned(a, e)) < IAbs(Aligned(b, e))

\* |a| < |b| for finite a, b that are not 0, ta = Top(a), tb = Top(b)
LessTops(a, b, ta, tb) ==
    IF ta # tb THEN ta < tb
    ELSE PairLess(PairLeft(Mant(a), WindowBits - (ta - a[2])),
                  PairLeft(Mant(b), WindowBits - (tb - b[2])))

\* |a| < |b| for a, b that are not 0 and not NaN
LessMagnitude(a, b) ==
    IF ~IsFinite(a) THEN FALSE
    ELSE IF ~IsFinite(b) THEN TRUE
    ELSE IF Small(a) /\ Small(b) /\ Near(a[2], b[2])
      THEN LessSmall(a, b, IF a[2] < b[2] THEN a[2] ELSE b[2])
    ELSE LessTops(a, b, Top(a), Top(b))

\* |x - y|, less 1 if sticky
PairDiff(x, y, sticky) ==
    PairSub(IF PairLess(x, y) THEN PairSub(y, x) ELSE PairSub(x, y),
            <<0, IF sticky THEN 1 ELSE 0>>)

\* sa * x + sb * y, times 2^e and rounded.  With sticky, the lesser of x
\* and y stands for itself and a fraction in (0, 1): a sum is x + y and the
\* fraction, a difference is |x - y| - 1 and a fraction.  A difference of
\* equals is 0, not -0.
AddAligned(sa, x, sb, y, e, sticky) ==
    Round(IF sa = sb THEN sa ELSE IF PairLess(x, y) THEN sb
          ELSE IF x = y THEN 1 ELSE sa,
          IF sa = sb THEN PairAdd(x, y) ELSE PairDiff(x, y, sticky),
          e, sticky)

\* the magnitude of a in units of 2^e, without the fraction
AlignTo(a, e) ==
    IF a[2] >= e THEN PairLeft(Mant(a), a[2] - e)
    ELSE PairRight(Mant(a), e - a[2])

\* a + b in units of 2^e, the greater of the two having WindowBits binary
\* digits there; the odd magnitude of the other leaves a fraction if its
\* exponent is below e
AddWindow(a, b, e) ==
    AddAligned(a[1], AlignTo(a, e), b[1], AlignTo(b, e), e,
               a[2] < e \/ b[2] < e)

\* a + b for finite a, b that are not 0, ta = Top(a), tb = Top(b): the sum
\* is the greater of the two when the other is below an eighth of its last
\* binary digit
AddTops(a, b, ta, tb) ==
    IF ta - tb > WindowBits - 1 THEN a
    ELSE IF tb - ta > WindowBits - 1 THEN b
    ELSE AddWindow(a, b, IMax(ta, tb) - WindowBits)

\* a + b for Small(a) and Small(b) at near exponents, e the lesser: the sum
\* is exact
AddSmall(a, b, e) == FromInt(Aligned(a, e) + Aligned(b, e), e)

\* a + b: a sum of two zeros is -0 only if both are -0
Add(a, b) ==
    IF Small(a) /\ Small(b) /\ Near(a[2], b[2])
      THEN AddSmall(a, b, IF a[2] < b[2] THEN a[2] ELSE b[2])
    ELSE IF IsFinite(a) /\ IsFinite(b)
      THEN (IF IsZero(b) THEN (IF IsZero(a) /\ a[1] # b[1] THEN Zero ELSE a)
            ELSE IF IsZero(a) THEN b
            ELSE AddTops(a, b, Top(a), Top(b)))
    ELSE IF IsNaN(a) \/ IsNaN(b) THEN NaN
    ELSE IF IsInf(a) /\ IsInf(b) THEN (IF a[1] = b[1] THEN a ELSE NaN)
    ELSE IF IsInf(a) THEN a
    ELSE b

Sub(a, b) == Add(a, Neg(b))

\* s * (w[1] + f) * 2^(e + w[2]) rounded, f a fraction that is not 0 iff
\* w[3] or sticky
RoundWindow(s, w, e, sticky) == Round(s, w[1], e + w[2], w[3] \/ sticky)

\* a * b: Infinity * 0 is NaN, a product with a zero is the zero of the
\* product of the signs; the product of two magnitudes below Half is odd,
\* below 2^28 and exact when its exponent is in the normal range
Mul(a, b) ==
    IF Small(a) /\ Small(b) /\ IAbs(a[2] + b[2]) <= 900
      THEN <<a[1] * b[1], a[2] + b[2], 0, a[4] * b[4]>>
    ELSE IF IsFinite(a) /\ IsFinite(b)
      THEN (IF IsZero(a) \/ IsZero(b) THEN ZeroOf(a[1] * b[1])
            ELSE RoundWindow(a[1] * b[1], Window(Product(Mant(a), Mant(b))),
                             a[2] + b[2], FALSE))
    ELSE IF IsNaN(a) \/ IsNaN(b) \/ IsZero(a) \/ IsZero(b) THEN NaN
    ELSE Infinity(a[1] * b[1])

\* <<words of the quotient, remainder>> of x * Half by d, for x of
\* WindowBits binary digits and 0 < d < Half: the halves of x from the
\* highest down, then one half of zeros, each with the remainder before it
QuotientSmall(x, d) ==
    LET n4 == x[1] \div Half
        n3 == (n4 % d) * Half + (x[1] % Half)
        n2 == (n3 % d) * Half + (x[2] \div Half)
        n1 == (n2 % d) * Half + (x[2] % Half)
        n0 == (n1 % d) * Half
    IN  <<<<(n0 \div d) + (n1 \div d) * Half,
            (n2 \div d) + (n3 \div d) * Half,
            n4 \div d, 0>>,
          n0 % d>>

\* <<p, e, sticky>> of the window w of a quotient in units of 2^e that left
\* the remainder r
DivWindow(w, e, r) == <<w[1], e + w[2], w[3] \/ r # 0>>

DivWords(qr, e) == DivWindow(Window(qr[1]), e, qr[2])

\* <<p, e, sticky>> with |a / b| = (p + f) * 2^e, f a fraction in [0, 1)
\* that is not 0 iff sticky: for finite a # 0 of la binary digits and a
\* magnitude d < Half of b
DivSmall(a, b, d, la) ==
    DivWords(QuotientSmall(PairLeft(Mant(a), WindowBits - la), d),
             a[2] - b[2] - (WindowBits - la) - HalfBits)

\* q followed by the next n binary digits of r / d for r < d, and the
\* remainder left: with rr = 2 * r, the next digit is 1 iff d <= rr
RECURSIVE Quotient(_, _, _, _)
Quotient(r, d, n, q) ==
    IF n = 0 THEN <<q, r>>
    ELSE LET rr == PairAdd(r, r)
         IN  IF PairLess(rr, d) THEN Quotient(rr, d, n - 1, 2 * q)
             ELSE Quotient(PairSub(rr, d), d, n - 1, 2 * q + 1)

\* the next n halves of r / d for r < d, the lowest first, and the
\* remainder left
RECURSIVE QuotientHalves(_, _, _)
QuotientHalves(r, d, n) ==
    IF n = 0 THEN <<<<>>, r>>
    ELSE LET high == Quotient(r, d, HalfBits, 0)
             low == QuotientHalves(high[2], d, n - 1)
         IN  <<Append(low[1], high[1]), low[2]>>

\* f the 4 halves of a fraction below 1 and the remainder left: <<p, e,
\* sticky>> of (whole + fraction) * 2^(e + WindowBits)
DivFraction(f, e, whole) ==
    <<<<f[1][3] + f[1][4] * Half + (IF whole THEN Word ELSE 0),
        f[1][1] + f[1][2] * Half>>,
      e, f[2] # <<0, 0>>>>

DivWhole(x, y, e, whole) ==
    DivFraction(QuotientHalves(IF whole THEN PairSub(x, y) ELSE x, y, 4),
                e, whole)

\* <<p, e, sticky>> of (x / y) * 2^(e + WindowBits) for x, y of as many
\* binary digits
DivAligned(x, y, e) == DivWhole(x, y, e, ~PairLess(x, y))

\* <<p, e, sticky>> of |a / b| for finite a, b that are not 0, of la and lb
\* binary digits
DivLengths(a, b, la, lb) ==
    DivAligned(PairLeft(Mant(a), IMax(lb - la, 0)),
               PairLeft(Mant(b), IMax(la - lb, 0)),
               a[2] - b[2] + la - lb - WindowBits)

\* the double nearest to s * (t[1] + f) * 2^t[2], f a fraction that is not
\* 0 iff t[3]
DivRound(s, t) == Round(s, t[1], t[2], t[3])

\* a / b for finite a, b that are not 0, b not a power of two, la the
\* number of binary digits of a
DivFinite(a, b, la) ==
    DivRound(a[1] * b[1],
             IF Small(b) THEN DivSmall(a, b, b[4], la)
             ELSE DivLengths(a, b, la, PairBits(Mant(b))))

\* a / b: the sign is the product of the signs; x / 0 is an infinity,
\* 0 / 0 is NaN, 0 / x and x / Infinity are zeros; a quotient by a power of
\* two that stays in the normal range is exact
Div(a, b) ==
    IF IsFinite(a) /\ IsFinite(b)
      THEN (IF IsZero(b)
              THEN (IF IsZero(a) THEN NaN ELSE Infinity(a[1] * b[1]))
            ELSE IF IsZero(a) THEN ZeroOf(a[1] * b[1])
            ELSE IF Mant(b) = <<0, 1>> /\ a[2] - b[2] >= MinExponent
                    /\ a[2] - b[2] + Precision <= MaxTop
              THEN <<a[1] * b[1], a[2] - b[2], a[3], a[4]>>
            ELSE DivFinite(a, b, PairBits(Mant(a))))
    ELSE IF IsNaN(a) \/ IsNaN(b) THEN NaN
    ELSE IF IsInf(a) /\ IsInf(b) THEN NaN
    ELSE IF IsInf(b) THEN ZeroOf(a[1] * b[1])
    ELSE Infinity(a[1] * b[1])

\* the number literal n/d (1e-3 is Rat(1, 1000)): the double nearest to it
Rat(n, d) == Div(Q(n), Q(d))

\* comparisons; every comparison with NaN is false, and -0 equals 0
Lt(a, b) ==
    IF IsNaN(a) \/ IsNaN(b) THEN FALSE
    ELSE IF IsZero(a) THEN ~IsZero(b) /\ b[1] > 0
    ELSE IF IsZero(b) THEN a[1] < 0
    ELSE IF a[1] # b[1] THEN a[1] < b[1]
    ELSE IF a = b THEN FALSE
    ELSE LessMagnitude(IF a[1] > 0 THEN a ELSE b, IF a[1] > 0 THEN b ELSE a)

Eq(a, b) == ~IsNaN(a) /\ (a = b \/ (IsZero(a) /\ IsZero(b)))

Leq(a, b) == Eq(a, b) \/ Lt(a, b)

\* Math.max, Math.min (NaN if an argument is NaN; 0 is above -0)
MathMax(a, b) ==
    IF IsNaN(a) \/ IsNaN(b) THEN NaN
    ELSE IF Lt(a, b) \/ (a = NegZero /\ b = Zero) THEN b ELSE a

MathMin(a, b) ==
    IF IsNaN(a) \/ IsNaN(b) THEN NaN
    ELSE IF Lt(b, a) \/ (a = Zero /\ b = NegZero) THEN b ELSE a

-----------------------------------------------------------------------------
(* Module-level constants and helpers of Zoom.tsx *)

\* clamp with no upper limit
clampLower(value, min, max) == MathMax(value, min)

\* const clamp = (value, min, max) => Math.min(Math.max(value, min), max)
clamp(value, min, max) == MathMin(MathMax(value, min), max)

\* const EPS = 1e-3
EPS == Rat(1, 1000)

ANIM_DURATION_MS == 200

INERTIA_PROJECTION_MS == 300


-----------------------------------------------------------------------------
(* Bounds of the model and the inputs the events are drawn from *)

\* gesture and layout events processed in one behaviour
MaxEvents == 5

\* events processed in a behaviour of two-pointer pinches, pans and
\* double-taps
MaxInterleaved == 6

\* the props <<minZoom, maxZoom>>: the defaults
Configs == {<<Q(1), Q(5)>>}

\* the props a parent passes when it renders the mounted component again
RenderConfigs == {<<Q(1), Q(3)>>}

\* props with minZoom = 0
ZeroConfigs == {<<Q(0), Q(4)>>}

\* props whose zoom range is 2 * EPS wide but for the rounding of the
\* doubles: the mid scale 1.0019999999999998 of the first is minZoom + EPS
\* as the code adds them, the mid scale 1.0030000000000001 of the second is
\* above it
NarrowConfigs == {<<Rat(1001, 1000), Rat(1003, 1000)>>,
                  <<Rat(1002, 1000), Rat(1004, 1000)>>}

\* e.nativeEvent.layout of the container: <<width, height>>
ContainerSizes == {<<Q(300), Q(300)>>, <<Q(200), Q(0)>>}

\* e.nativeEvent.layout of the content
ContentSizes == {<<Q(300), Q(300)>>, <<Q(0), Q(200)>>}

\* event.numberOfPointers of a pinch start
Pointers == {1, 2, 3}

\* <<event.numberOfPointers, event.scale>> of a pinch update or end
PinchEvents == {<<2, Rat(1, 2)>>, <<2, Q(2)>>, <<2, Q(10)>>,
                <<1, Q(2)>>, <<3, Rat(1, 2)>>}

\* the pinch updates and ends of two pointers that stay inside the zoom
\* range or leave it at its lower end
TwoPointerEvents == {e \in PinchEvents : e[1] = 2 /\ e[2] # Q(10)}

\* the layout the container and the content report while pinches, pans and
\* double-taps interleave
MeasuredSizes == ContainerSizes \cap ContentSizes

\* <<event.translationX, event.translationY>> of a pan
Translations == {<<Q(500), Q(0)>>, <<Q(-100), Q(40)>>}

\* <<translation, <<event.velocityX, event.velocityY>>>> of a pan end
PanEndEvents == {<<<<Q(500), Q(0)>>, <<Q(0), Q(0)>>>>,
                 <<<<Q(-100), Q(40)>>, <<Q(-1000), Q(500)>>>>}

\* an absent event.x / event.y
Undefined == <<0, -NotFinite, 0, 0>>

NoPosition == <<Undefined, Undefined>>

\* <<<<event.x, event.y>>, success>> of a double-tap end
TapEvents == {<<NoPosition, TRUE>>, <<<<Q(0), Q(0)>>, TRUE>>,
              <<<<Q(150), Q(150)>>, TRUE>>, <<<<Q(150), Q(150)>>, FALSE>>}

\* the double-tap ends that report success and a position
SuccessfulTaps == {e \in TapEvents : e[2] /\ e[1] # NoPosition}

\* the pan ends that carry a velocity
FlingEvents == {e \in PanEndEvents : e[2] # <<Q(0), Q(0)>>}

\* a ?? b
Coalesce(a, b) == IF a = Undefined THEN b ELSE a

-----------------------------------------------------------------------------
(* State *)

VARIABLES
    minZoom, maxZoom,               \* props
    scale, translateX, translateY,  \* the Animated.Values (live)
    lastParallel,                   \* ref: id of a composite animation, 0 = null
    committedScale, committedTranslateX, committedTranslateY,
    containerWidthPx, containerHeightPx, contentWidthPx, contentHeightPx,
    panStartTranslateX, panStartTranslateY,
    animations,                     \* the composite animations in flight
    pinchActive,                    \* pinch recogniser between onStart and onEnd
    panState,                       \* pan recogniser: "idle", "began", "active"
    events,                         \* number of events processed
    limit,                          \* number of events a behaviour processes
    last,                           \* the event or frame processed last
    prev,                           \* the committed values just before it
    baseline,                       \* committed translate at the last pan begin
    pinchStartScale,                \* committed scale at the start of the pinch
                                    \* in progress, minZoom when there is none
    cycle                           \* successful double-taps in a row, counted
                                    \* from committed scale = minZoom

config == <<minZoom, maxZoom>>

live == <<scale, translateX, translateY>>

committed == <<committedScale, committedTranslateX, committedTranslateY>>

sizes == <<containerWidthPx, containerHeightPx, contentWidthPx, contentHeightPx>>

panStart == <<panStartTranslateX, panStartTranslateY>>

history == <<events, limit, last, prev, baseline, pinchStartScale, cycle>>

vars == <<config, live, lastParallel, committed, sizes, panStart, animations,
          pinchActive, panState, history>>

-----------------------------------------------------------------------------
(* computePanBounds, as a function of the sizes it reads *)

\* return { minX: -maxPanX, maxX: maxPanX, minY: -maxPanY, maxY: maxPanY }
BoundsOf(maxPanX, maxPanY) ==
    [minX |-> Neg(maxPanX), maxX |-> maxPanX,
     minY |-> Neg(maxPanY), maxY |-> maxPanY]

\* computePanBounds with Math.abs in place of Math.max(0, ...)
computePanBoundsAbs(containerWidth, containerHeight, contentWidth, contentHeight, scaleValue) ==
    BoundsOf(MathAbs(Div(Sub(Mul(contentWidth, scaleValue), containerWidth),
                         Q(2))),
             MathAbs(Div(Sub(Mul(contentHeight, scaleValue), containerHeight),
                         Q(2))))

\* maxPanX = Math.max(0, (contentWidth * scaleValue - containerWidth) / 2),
\* maxPanY likewise of the heights
computePanBounds(containerWidth, containerHeight, contentWidth, contentHeight, scaleValue) ==
    BoundsOf(MathMax(Zero, Div(Sub(Mul(contentWidth, scaleValue),
                                   containerWidth), Q(2))),
             MathMax(Zero, Div(Sub(Mul(contentHeight, scaleValue),
                                   containerHeight), Q(2))))

\* computePanBounds(scaleValue) in the current state
PanBounds(scaleValue) ==
    computePanBounds(containerWidthPx, containerHeightPx,
                     contentWidthPx, contentHeightPx, scaleValue)

-----------------------------------------------------------------------------
(* Animated: composite animations of the live values *)

AllValues == {"scale", "translateX", "translateY"}

\* StopOn for values whose animations nothing stops
StopOnNothing(anims, vals) == anims

\* The composites of anims that keep running when the values in vals are
\* set or get a new animation: an Animated.Value stops its current animation,
\* and a stopTogether composite stops with any of its parts.
StopOn(anims, vals) == {a \in anims : a.vals \cap vals = {}}

\* composite.stop()
StopComposite(anims, id) == {a \in anims : a.id # id}

FreshId(anims) == CHOOSE i \in 1..(Cardinality(anims) + 1) :
                      \A a \in anims : a.id # i

\* Animated.parallel([Animated.timing(v, {toValue, duration, easing}), ...],
\* {stopTogether: true}) started when the live values are from; ease is the
\* eased progress at half of the duration
Parallel(id, vals, from, to, ease, duration) ==
    [id |-> id, vals |-> vals, from |-> from, to |-> to, ease |-> ease,
     duration |-> duration, half |-> FALSE]

\* value of a timing animation when the eased progress is p:
\* from + p * (to - from)
Interpolate(from, to, p) == Add(from, Mul(p, Sub(to, from)))

\* Easing.out(Easing.cubic) at half of the duration: 1 - (1 - 1/2)^3
EaseOutCubicHalf == Rat(7, 8)

\* the default easing, Easing.inOut(Easing.ease), at half of the duration
EaseInOutHalf == Rat(1, 2)

\* stopAnimations that stops nothing
stopAnimationsNone(anims, ref) == anims

\* stopAnimations(): the animations left running
stopAnimations(anims, ref) == StopComposite(anims, ref)

-----------------------------------------------------------------------------
(* History *)

NoXY == <<Zero, Zero>>

\* an event: its arguments, and for a size report whether the event before
\* it was the same report of the same size
Event(op, pointers, factor, xy, vel, ok) ==
    [op |-> op, pointers |-> pointers, factor |-> factor, xy |-> xy,
     vel |-> vel, ok |-> ok,
     repeat |-> (op \in {"containerLayout", "contentLayout"}
                 /\ last.op = op /\ last.xy = xy)]

Snapshot == committed

\* The double-taps counted so far: a successful double-tap at committed
\* scale minZoom starts the count at 1, the next two continue it, a pinch
\* end (which commits another scale) or a render with other props ends it.
CountTaps(e) ==
    IF e.op = "doubleTap" /\ e.ok
      THEN IF committedScale = minZoom THEN 1
           ELSE IF cycle \in {1, 2} THEN cycle + 1
           ELSE 0
      ELSE IF e.op \in {"pinchEnd", "render"} THEN 0 ELSE cycle

Record(e) ==
    /\ events < limit
    /\ events' = events + 1
    /\ limit' = limit
    /\ last' = e
    /\ prev' = Snapshot
    /\ baseline' = IF e.op = "panBegin"
                     THEN <<committedTranslateX, committedTranslateY>>
                     ELSE baseline
    /\ pinchStartScale' = IF e.op = "pinchStart" THEN committedScale
                          ELSE IF e.op = "pinchEnd" THEN minZoom
                          ELSE pinchStartScale
    /\ cycle' = CountTaps(e)

-----------------------------------------------------------------------------
(* Initial state: the refs and Animated.Values of a mounted Zoom *)

Mounted(props) ==
    /\ minZoom = props[1]
    /\ maxZoom = props[2]
    /\ scale = minZoom
    /\ translateX = Zero
    /\ translateY = Zero
    /\ lastParallel = 0
    /\ committedScale = minZoom
    /\ committedTranslateX = Zero
    /\ committedTranslateY = Zero
    /\ containerWidthPx = Zero
    /\ containerHeightPx = Zero
    /\ contentWidthPx = Zero
    /\ contentHeightPx = Zero
    /\ panStartTranslateX = Zero
    /\ panStartTranslateY = Zero
    /\ animations = {}
    /\ pinchActive = FALSE
    /\ panState = "idle"
    /\ events = 0
    /\ last = [op |-> "mount", pointers |-> 0, factor |-> Zero, xy |-> NoXY,
               vel |-> NoXY, ok |-> TRUE, repeat |-> FALSE]
    /\ prev = <<minZoom, Zero, Zero>>
    /\ baseline = NoXY
    /\ pinchStartScale = minZoom
    /\ cycle = 0

Init == limit = MaxEvents /\ \E props \in Configs : Mounted(props)

\* The parent renders the mounted component again with other props: the
\* function runs again, every useRef keeps its object, and the handlers it
\* builds read the new minZoom and maxZoom.
Render(props) ==
    /\ props # config
    /\ Record(Event("render", 0, Zero, props, NoXY, TRUE))
    /\ minZoom' = props[1]
    /\ maxZoom' = props[2]
    /\ UNCHANGED <<live, lastParallel, committed, sizes, panStart, animations,
                   pinchActive, panState>>

-----------------------------------------------------------------------------
(* Layout callbacks *)

\* Reclamp that writes the committed translate it read, not the clamped one,
\* to the live values
ReclampStaleLive(containerWidth, containerHeight, contentWidth, contentHeight) ==
    LET b == computePanBounds(containerWidth, containerHeight,
                              contentWidth, contentHeight, committedScale)
    IN  /\ committedTranslateX' = clamp(committedTranslateX, b.minX, b.maxX)
        /\ committedTranslateY' = clamp(committedTranslateY, b.minY, b.maxY)
        /\ translateX' = committedTranslateX
        /\ translateY' = committedTranslateY
        /\ animations' = StopOn(animations, {"translateX", "translateY"})

\* clampedX and clampedY are committed and set on the live values
ReclampWrite(clampedX, clampedY) ==
    /\ committedTranslateX' = clampedX
    /\ committedTranslateY' = clampedY
    /\ translateX' = clampedX
    /\ translateY' = clampedY
    /\ animations' = StopOn(animations, {"translateX", "translateY"})

\* the committed translate is clamped to the bounds b
ReclampWithin(b) ==
    ReclampWrite(clamp(committedTranslateX, b.minX, b.maxX),
                 clamp(committedTranslateY, b.minY, b.maxY))

\* the re-clamp both layout callbacks perform once the size is stored
Reclamp(containerWidth, containerHeight, contentWidth, contentHeight) ==
    ReclampWithin(computePanBounds(containerWidth, containerHeight,
                                   contentWidth, contentHeight, committedScale))

\* onContainerLayout that re-clamps with the container size stored before
onContainerLayoutStale(width, height) ==
    /\ Record(Event("containerLayout", 0, Zero, <<width, height>>, NoXY, TRUE))
    /\ containerWidthPx' = width
    /\ containerHeightPx' = height
    /\ Reclamp(containerWidthPx, containerHeightPx, contentWidthPx,
               contentHeightPx)
    /\ UNCHANGED <<config, scale, lastParallel, committedScale, contentWidthPx,
                   contentHeightPx, panStart, pinchActive, panState>>

onContainerLayout(width, height) ==
    /\ Record(Event("containerLayout", 0, Zero, <<width, height>>, NoXY, TRUE))
    /\ containerWidthPx' = width
    /\ containerHeightPx' = height
    /\ Reclamp(width, height, contentWidthPx, contentHeightPx)
    /\ UNCHANGED <<config, scale, lastParallel, committedScale, contentWidthPx,
                   contentHeightPx, panStart, pinchActive, panState>>

onContentLayout(width, height) ==
    /\ Record(Event("contentLayout", 0, Zero, <<width, height>>, NoXY, TRUE))
    /\ contentWidthPx' = width
    /\ contentHeightPx' = height
    /\ Reclamp(containerWidthPx, containerHeightPx, width, height)
    /\ UNCHANGED <<config, scale, lastParallel, committedScale, containerWidthPx,
                   containerHeightPx, panStart, pinchActive, panState>>

-----------------------------------------------------------------------------
(* Pinch gesture *)

\* PinchScale with no clamp to the zoom range
PinchScaleUnclamped(factor) == Mul(committedScale, factor)

\* clamp(committedScale.current * event.scale, minZoom, maxZoom)
PinchScale(factor) == clamp(Mul(committedScale, factor), minZoom, maxZoom)

PinchOnStart(numberOfPointers) ==
    /\ ~pinchActive
    /\ Record(Event("pinchStart", numberOfPointers, Zero, NoXY, NoXY, TRUE))
    /\ pinchActive' = TRUE
    /\ IF numberOfPointers # 2
         THEN UNCHANGED <<animations, lastParallel>>
         ELSE /\ animations' = stopAnimations(animations, lastParallel)
              /\ lastParallel' = 0
    /\ UNCHANGED <<config, live, committed, sizes, panStart, panState>>

\* PinchOnUpdate with no test of the pointer count
PinchOnUpdateAnyPointers(numberOfPointers, factor) ==
    /\ pinchActive
    /\ Record(Event("pinchUpdate", numberOfPointers, factor, NoXY, NoXY, TRUE))
    /\ LET clampedScale == PinchScale(factor)
           b == PanBounds(clampedScale)
       IN  /\ scale' = clampedScale
           /\ translateX' = clamp(committedTranslateX, b.minX, b.maxX)
           /\ translateY' = clamp(committedTranslateY, b.minY, b.maxY)
           /\ animations' = StopOn(animations, AllValues)
    /\ UNCHANGED <<config, lastParallel, committed, sizes, panStart,
                   pinchActive, panState>>

\* PinchOnUpdate that scales the live scale, compounding the updates
PinchOnUpdateCompounding(numberOfPointers, factor) ==
    /\ pinchActive
    /\ Record(Event("pinchUpdate", numberOfPointers, factor, NoXY, NoXY, TRUE))
    /\ IF numberOfPointers # 2
         THEN UNCHANGED <<live, animations>>
         ELSE LET clampedScale == clamp(Mul(scale, factor), minZoom, maxZoom)
                  b == PanBounds(clampedScale)
              IN  /\ scale' = clampedScale
                  /\ translateX' = clamp(committedTranslateX, b.minX, b.maxX)
                  /\ translateY' = clamp(committedTranslateY, b.minY, b.maxY)
                  /\ animations' = StopOn(animations, AllValues)
    /\ UNCHANGED <<config, lastParallel, committed, sizes, panStart,
                   pinchActive, panState>>

\* scale.setValue(clampedScale), and the committed translate clamped to the
\* bounds b is set on the live translate
PinchUpdateWithin(clampedScale, b) ==
    /\ scale' = clampedScale
    /\ translateX' = clamp(committedTranslateX, b.minX, b.maxX)
    /\ translateY' = clamp(committedTranslateY, b.minY, b.maxY)
    /\ animations' = StopOn(animations, AllValues)

\* the writes of a pinch update that computed clampedScale
PinchUpdateTo(clampedScale) ==
    PinchUpdateWithin(clampedScale, PanBounds(clampedScale))

PinchOnUpdate(numberOfPointers, factor) ==
    /\ pinchActive
    /\ Record(Event("pinchUpdate", numberOfPointers, factor, NoXY, NoXY, TRUE))
    /\ IF numberOfPointers # 2
         THEN UNCHANGED <<live, animations>>
         ELSE PinchUpdateTo(PinchScale(factor))
    /\ UNCHANGED <<config, lastParallel, committed, sizes, panStart,
                   pinchActive, panState>>

\* PinchOnEnd that scales the live scale, compounding the updates
PinchOnEndCompounding(numberOfPointers, factor) ==
    /\ pinchActive
    /\ Record(Event("pinchEnd", numberOfPointers, factor, NoXY, NoXY, TRUE))
    /\ pinchActive' = FALSE
    /\ LET clampedScale == clamp(Mul(scale, factor), minZoom, maxZoom)
           b == PanBounds(clampedScale)
           clampedX == clamp(committedTranslateX, b.minX, b.maxX)
           clampedY == clamp(committedTranslateY, b.minY, b.maxY)
       IN  /\ committedScale' = clampedScale
           /\ scale' = clampedScale
           /\ committedTranslateX' = clampedX
           /\ committedTranslateY' = clampedY
           /\ translateX' = clampedX
           /\ translateY' = clampedY
           /\ animations' = StopOn(animations, AllValues)
    /\ UNCHANGED <<config, lastParallel, sizes, panStart, panState>>

\* clampedScale, clampedX and clampedY are committed and set on the live
\* values
PinchEndWrite(clampedScale, clampedX, clampedY) ==
    /\ committedScale' = clampedScale
    /\ scale' = clampedScale
    /\ committedTranslateX' = clampedX
    /\ committedTranslateY' = clampedY
    /\ translateX' = clampedX
    /\ translateY' = clampedY
    /\ animations' = StopOn(animations, AllValues)

\* the committed translate is clamped to the bounds b of clampedScale
PinchEndWithin(clampedScale, b) ==
    PinchEndWrite(clampedScale,
                  clamp(committedTranslateX, b.minX, b.maxX),
                  clamp(committedTranslateY, b.minY, b.maxY))

\* the writes of a pinch end that computed clampedScale
PinchEndTo(clampedScale) ==
    PinchEndWithin(clampedScale, PanBounds(clampedScale))

PinchOnEnd(numberOfPointers, factor) ==
    /\ pinchActive
    /\ Record(Event("pinchEnd", numberOfPointers, factor, NoXY, NoXY, TRUE))
    /\ pinchActive' = FALSE
    /\ PinchEndTo(PinchScale(factor))
    /\ UNCHANGED <<config, lastParallel, sizes, panStart, panState>>

-----------------------------------------------------------------------------
(* Pan gesture *)

\* the guard of the pan handlers without EPS
AtMinZoomNoEps == Leq(committedScale, minZoom)

\* committedScale.current <= minZoom + EPS
AtMinZoom == Leq(committedScale, Add(minZoom, EPS))

PanOnBegin ==
    /\ panState = "idle"
    /\ Record(Event("panBegin", 0, Zero, NoXY, NoXY, TRUE))
    /\ panState' = "began"
    /\ panStartTranslateX' = committedTranslateX
    /\ panStartTranslateY' = committedTranslateY
    /\ UNCHANGED <<config, live, lastParallel, committed, sizes, animations,
                   pinchActive>>

\* PanOnUpdate that writes the moved baseline without clamping it
PanOnUpdateUnclamped(translation) ==
    /\ panState \in {"began", "active"}
    /\ Record(Event("panUpdate", 0, Zero, translation, NoXY, TRUE))
    /\ panState' = "active"
    /\ IF AtMinZoom
         THEN UNCHANGED <<live, animations>>
         ELSE /\ translateX' = Add(panStartTranslateX, translation[1])
              /\ translateY' = Add(panStartTranslateY, translation[2])
              /\ animations' = StopOn(animations, {"translateX", "translateY"})
              /\ UNCHANGED scale
    /\ UNCHANGED <<config, lastParallel, committed, sizes, panStart, pinchActive>>

\* PanOnUpdate that also commits the translate it writes
PanOnUpdateCommitting(translation) ==
    /\ panState \in {"began", "active"}
    /\ Record(Event("panUpdate", 0, Zero, translation, NoXY, TRUE))
    /\ panState' = "active"
    /\ IF AtMinZoom
         THEN UNCHANGED <<live, animations, committedTranslateX,
                          committedTranslateY>>
         ELSE LET b == PanBounds(committedScale)
              IN  /\ translateX' = clamp(Add(panStartTranslateX, translation[1]),
                                           b.minX, b.maxX)
                  /\ translateY' = clamp(Add(panStartTranslateY, translation[2]),
                                           b.minY, b.maxY)
                  /\ committedTranslateX' = translateX'
                  /\ committedTranslateY' = translateY'
                  /\ animations' = StopOn(animations, {"translateX", "translateY"})
                  /\ UNCHANGED scale
    /\ UNCHANGED <<config, lastParallel, committedScale, sizes, panStart,
                   pinchActive>>

\* the pan start moved by translation and clamped to the bounds b is set on
\* the live translate
PanUpdateWithin(translation, b) ==
    /\ translateX' = clamp(Add(panStartTranslateX, translation[1]),
                           b.minX, b.maxX)
    /\ translateY' = clamp(Add(panStartTranslateY, translation[2]),
                           b.minY, b.maxY)
    /\ animations' = StopOn(animations, {"translateX", "translateY"})
    /\ UNCHANGED scale

PanOnUpdate(translation) ==
    /\ panState \in {"began", "active"}
    /\ Record(Event("panUpdate", 0, Zero, translation, NoXY, TRUE))
    /\ panState' = "active"
    /\ IF AtMinZoom
         THEN UNCHANGED <<live, animations>>
         ELSE PanUpdateWithin(translation, PanBounds(committedScale))
    /\ UNCHANGED <<config, lastParallel, committed, sizes, panStart, pinchActive>>

\* PanTarget with no projection of the release velocity
PanTargetNoInertia(start, translation, velocity, min, max) ==
    clamp(Add(start, translation), min, max)

\* the committed target of a pan released at translation with velocity
PanTarget(start, translation, velocity, min, max) ==
    LET release == clamp(Add(start, translation), min, max)
        dt == Div(Q(INERTIA_PROJECTION_MS), Q(1000))
        projected == Add(release, Mul(velocity, dt))
    IN  clamp(projected, min, max)

\* targetX and targetY are committed, and the parallel of the two timings
\* to them starts as composite id beside the composites rest
PanEndStart(targetX, targetY, rest, id) ==
    /\ committedTranslateX' = targetX
    /\ committedTranslateY' = targetY
    /\ lastParallel' = id
    /\ animations' = rest \cup
          {Parallel(id, {"translateX", "translateY"}, live,
                    <<scale, targetX, targetY>>, EaseOutCubicHalf,
                    INERTIA_PROJECTION_MS)}
    /\ UNCHANGED <<translateX, translateY>>

\* rest: the composites that keep running when the two timings start
PanEndTo(targetX, targetY, rest) ==
    PanEndStart(targetX, targetY, rest, FreshId(rest))

\* the end of a pan above the minimum, b the bounds of the committed scale
PanEndWithin(translation, velocity, b) ==
    PanEndTo(PanTarget(panStartTranslateX, translation[1], velocity[1],
                       b.minX, b.maxX),
             PanTarget(panStartTranslateY, translation[2], velocity[2],
                       b.minY, b.maxY),
             StopOn(animations, {"translateX", "translateY"}))

PanOnEnd(translation, velocity) ==
    /\ panState \in {"began", "active"}
    /\ Record(Event("panEnd", 0, Zero, translation, velocity, TRUE))
    /\ panState' = "idle"
    /\ IF AtMinZoom
         THEN /\ committedTranslateX' = Zero
              /\ committedTranslateY' = Zero
              /\ translateX' = Zero
              /\ translateY' = Zero
              /\ animations' = StopOn(animations, {"translateX", "translateY"})
              /\ UNCHANGED lastParallel
         ELSE PanEndWithin(translation, velocity, PanBounds(committedScale))
    /\ UNCHANGED <<config, scale, committedScale, sizes, panStart, pinchActive>>

\* the pan recogniser fails or is cancelled before it activates: no callback
PanFinalize ==
    /\ panState = "began"
    /\ panState' = "idle"
    /\ UNCHANGED <<config, live, lastParallel, committed, sizes, panStart,
                   animations, pinchActive, history>>

-----------------------------------------------------------------------------
(* Double-tap gesture *)

\* getTargetScale that toggles between the two ends of the range
getTargetScaleToggle(current, min, max) ==
    IF Lt(current, Sub(max, EPS)) THEN max ELSE min

getTargetScale(current, min, max) ==
    LET midScale == Div(Add(min, max), Q(2))
    IN  IF Lt(MathAbs(Sub(current, min)), EPS) THEN midScale
        ELSE IF Lt(current, Sub(max, EPS)) THEN max
        ELSE min

\* FocalTranslate that leaves the ratio out
FocalTranslateNoRatio(tapFromCenter, ratio, committedTranslate, min, max) ==
    clamp(committedTranslate, min, max)

\* tap - ratio * (tap - committedTranslate), clamped
FocalTranslate(tapFromCenter, ratio, committedTranslate, min, max) ==
    LET offset == Sub(tapFromCenter, committedTranslate)
    IN  clamp(Sub(tapFromCenter, Mul(ratio, offset)), min, max)

\* DoubleTapZoom that starts the animation and commits nothing
DoubleTapZoomDeferred(position) ==
    LET targetScale == getTargetScale(committedScale, minZoom, maxZoom)
        containerW == containerWidthPx
        containerH == containerHeightPx
        tapXFromCenter == Sub(Coalesce(position[1], Div(containerW, Q(2))),
                                Div(containerW, Q(2)))
        tapYFromCenter == Sub(Coalesce(position[2], Div(containerH, Q(2))),
                                Div(containerH, Q(2)))
        ratio == Div(targetScale, committedScale)
        b == PanBounds(targetScale)
        clampedTx == FocalTranslate(tapXFromCenter, ratio,
                                    committedTranslateX, b.minX, b.maxX)
        clampedTy == FocalTranslate(tapYFromCenter, ratio,
                                    committedTranslateY, b.minY, b.maxY)
        rest == StopOn(stopAnimations(animations, lastParallel), AllValues)
        id == FreshId(rest)
    IN  /\ lastParallel' = id
        /\ animations' = rest \cup
              {Parallel(id, AllValues, live,
                        <<targetScale, clampedTx, clampedTy>>,
                        EaseInOutHalf, ANIM_DURATION_MS)}
        /\ UNCHANGED <<live, committed>>

\* targetScale, clampedTx and clampedTy are committed, and the parallel of
\* the three timings to them starts as composite id beside the composites
\* rest
DoubleTapStart(targetScale, clampedTx, clampedTy, rest, id) ==
    /\ committedScale' = targetScale
    /\ committedTranslateX' = clampedTx
    /\ committedTranslateY' = clampedTy
    /\ lastParallel' = id
    /\ animations' = rest \cup
          {Parallel(id, AllValues, live,
                    <<targetScale, clampedTx, clampedTy>>,
                    EaseInOutHalf, ANIM_DURATION_MS)}
    /\ UNCHANGED live

\* rest: the composites that keep running after stopAnimations() and the
\* start of the three timings
DoubleTapTo(targetScale, clampedTx, clampedTy, rest) ==
    DoubleTapStart(targetScale, clampedTx, clampedTy, rest, FreshId(rest))

\* the zoom to targetScale about the tap, ratio = targetScale / currentScale
\* and b = computePanBounds(targetScale)
DoubleTapWithin(targetScale, tapXFromCenter, tapYFromCenter, ratio, b) ==
    DoubleTapTo(targetScale,
                FocalTranslate(tapXFromCenter, ratio, committedTranslateX,
                               b.minX, b.maxX),
                FocalTranslate(tapYFromCenter, ratio, committedTranslateY,
                               b.minY, b.maxY),
                StopOn(stopAnimations(animations, lastParallel), AllValues))

\* (tap ?? center) - center
TapFromCenter(tap, center) == Sub(Coalesce(tap, center), center)

\* the zoom to targetScale about the tap at position
DoubleTapAt(position, targetScale) ==
    DoubleTapWithin(targetScale,
                    TapFromCenter(position[1], Div(containerWidthPx, Q(2))),
                    TapFromCenter(position[2], Div(containerHeightPx, Q(2))),
                    Div(targetScale, committedScale),
                    PanBounds(targetScale))

\* a recognised double-tap: lines 345-389 of the handler
DoubleTapZoom(position) ==
    DoubleTapAt(position, getTargetScale(committedScale, minZoom, maxZoom))

\* DoubleTapOnEnd with no test of success
DoubleTapOnEndAlways(position, success) ==
    /\ Record(Event("doubleTap", 0, Zero, position, NoXY, success))
    /\ DoubleTapZoom(position)
    /\ UNCHANGED <<config, sizes, panStart, pinchActive, panState>>

DoubleTapOnEnd(position, success) ==
    /\ Record(Event("doubleTap", 0, Zero, position, NoXY, success))
    /\ IF ~success
         THEN UNCHANGED <<live, lastParallel, committed, animations>>
         ELSE DoubleTapZoom(position)
    /\ UNCHANGED <<config, sizes, panStart, pinchActive, panState>>

-----------------------------------------------------------------------------
(* Animation frames *)

\* Drive that writes nothing
DriveNothing(a, value) == UNCHANGED live

\* the live values after a frame of composite a that drives them to value
Drive(a, value) ==
    /\ scale' = IF "scale" \in a.vals THEN value[1] ELSE scale
    /\ translateX' = IF "translateX" \in a.vals THEN value[2] ELSE translateX
    /\ translateY' = IF "translateY" \in a.vals THEN value[3] ELSE translateY

FrameRecord ==
    /\ last' = Event("frame", 0, Zero, NoXY, NoXY, TRUE)
    /\ prev' = Snapshot
    /\ UNCHANGED <<events, limit, baseline, pinchStartScale, cycle>>

\* the frame at half of the duration
FrameHalf(a) ==
    /\ ~a.half
    /\ Drive(a, [i \in 1..3 |-> Interpolate(a.from[i], a.to[i], a.ease)])
    /\ animations' = (animations \ {a}) \cup {[a EXCEPT !.half = TRUE]}
    /\ FrameRecord
    /\ UNCHANGED <<config, lastParallel, committed, sizes, panStart,
                   pinchActive, panState>>

\* the last frame: the values reach toValue and the composite completes
FrameEnd(a) ==
    /\ Drive(a, a.to)
    /\ animations' = animations \ {a}
    /\ FrameRecord
    /\ UNCHANGED <<config, lastParallel, committed, sizes, panStart,
                   pinchActive, panState>>

-----------------------------------------------------------------------------
(* Specification *)

Next ==
    \/ \E size \in ContainerSizes : onContainerLayout(size[1], size[2])
    \/ \E size \in ContentSizes : onContentLayout(size[1], size[2])
    \/ \E n \in Pointers : PinchOnStart(n)
    \/ \E e \in PinchEvents : PinchOnUpdate(e[1], e[2])
    \/ \E e \in PinchEvents : PinchOnEnd(e[1], e[2])
    \/ PanOnBegin
    \/ \E t \in Translations : PanOnUpdate(t)
    \/ \E e \in PanEndEvents : PanOnEnd(e[1], e[2])
    \/ PanFinalize
    \/ \E e \in TapEvents : DoubleTapOnEnd(e[1], e[2])
    \/ \E a \in animations : FrameHalf(a)
    \/ \E a \in animations : FrameEnd(a)

Spec == Init /\ [][Next]_vars


\* The same component with no pinch gesture performed, for the props of
\* Configs and NarrowConfigs.
InitNoPinch ==
    limit = MaxEvents /\ \E props \in Configs \cup NarrowConfigs : Mounted(props)

NextNoPinch ==
    \/ \E size \in ContainerSizes : onContainerLayout(size[1], size[2])
    \/ \E size \in ContentSizes : onContentLayout(size[1], size[2])
    \/ PanOnBegin
    \/ \E t \in Translations : PanOnUpdate(t)
    \/ \E e \in PanEndEvents : PanOnEnd(e[1], e[2])
    \/ PanFinalize
    \/ \E e \in TapEvents : DoubleTapOnEnd(e[1], e[2])
    \/ \E a \in animations : FrameHalf(a)
    \/ \E a \in animations : FrameEnd(a)

SpecNoPinch == InitNoPinch /\ [][NextNoPinch]_vars

\* the last frame of an animation in flight
LastFrame == \E a \in animations : FrameEnd(a)

\* The component under pan, double tap and layout reports when frames are
\* scheduled: an Animated animation that stays in flight gets its last frame.
FairSpec == Init /\ [][NextNoPinch]_vars /\ WF_vars(LastFrame)

\* The component under every gesture, rendered again with other props.
NextRender ==
    \/ Next
    \/ \E props \in Configs \cup RenderConfigs : Render(props)

SpecRender == Init /\ [][NextRender]_vars

\* The component under pinches of two pointers, pans, successful double-taps
\* and size reports of 300 x 300, for MaxInterleaved events: a pinch update
\* and a pan update that both write the live translate take six events (a
\* size report, a double-tap that commits a scale above the minimum, the
\* start and an update of the pinch, the begin and an update of the pan).
InitInterleaved ==
    limit = MaxInterleaved /\ \E props \in Configs : Mounted(props)

NextInterleaved ==
    \/ \E size \in MeasuredSizes : onContainerLayout(size[1], size[2])
    \/ \E size \in MeasuredSizes : onContentLayout(size[1], size[2])
    \/ PinchOnStart(2)
    \/ \E e \in TwoPointerEvents : PinchOnUpdate(e[1], e[2])
    \/ \E e \in TwoPointerEvents : PinchOnEnd(e[1], e[2])
    \/ PanOnBegin
    \/ \E t \in Translations : PanOnUpdate(t)
    \/ \E e \in FlingEvents : PanOnEnd(e[1], e[2])
    \/ PanFinalize
    \/ \E e \in SuccessfulTaps : DoubleTapOnEnd(e[1], e[2])
    \/ \E a \in animations : FrameHalf(a)
    \/ \E a \in animations : FrameEnd(a)

SpecInterleaved == InitInterleaved /\ [][NextInterleaved]_vars

\* The component mounted with the props of ZeroConfigs.
InitZeroMin == limit = MaxEvents /\ \E props \in ZeroConfigs : Mounted(props)

SpecZeroMin == InitZeroMin /\ [][Next]_vars

-----------------------------------------------------------------------------
(* Properties *)

DefaultProps == minZoom = Q(1) /\ maxZoom = Q(5)

\* value lies in [-maxPan, maxPan]
Within(value, min, max) == Leq(min, value) /\ Leq(value, max)

\* C1: for any props with minZoom < maxZoom, in every reachable state the
\* committed translateX and translateY lie within the pan bounds computed
\* from the latest container size, the latest content size and the committed
\* scale.  With minZoom = 0 the first double-tap divides by the committed
\* scale 0 and commits NaN.
C1_CommittedTranslateInBounds ==
    LET b == PanBounds(committedScale)
    IN  /\ Within(committedTranslateX, b.minX, b.maxX)
        /\ Within(committedTranslateY, b.minY, b.maxY)

\* C2: for the props the component is mounted with, in every reachable state
\* the committed scale is within [minZoom, maxZoom], whatever layout reports,
\* pinch, pan and double-tap events have been processed.
C2_CommittedScaleInRange == Within(committedScale, minZoom, maxZoom)

\* a pinch that would leave the range has ended: factor 10 from below
\* maxZoom commits maxZoom
C2_Witness ==
    /\ last.op = "pinchEnd"
    /\ last.factor = Q(10)
    /\ Lt(prev[1], maxZoom)
    /\ committedScale = maxZoom

MidScale == Div(Add(minZoom, maxZoom), Q(2))

\* the committed scale after the first, second and third successive
\* double-tap counted from committed scale minZoom
CycleScales ==
    /\ cycle = 1 => committedScale = MidScale
    /\ cycle = 2 => committedScale = maxZoom
    /\ cycle = 3 => committedScale = minZoom

\* C3 as stated: for every configuration with maxZoom > minZoom, three
\* consecutive successful double-taps from committed scale minZoom commit
\* (minZoom+maxZoom)/2, then maxZoom, then minZoom.
C3_Original == Lt(minZoom, maxZoom) => CycleScales

\* the mid scale the code computes is not within EPS of minZoom and is
\* below maxZoom - EPS, as the code's comparisons decide
MidScaleApart ==
    /\ ~Lt(MathAbs(Sub(MidScale, minZoom)), EPS)
    /\ Lt(MidScale, Sub(maxZoom, EPS))

\* C3 amended: the same for every configuration whose mid scale
\* (minZoom + maxZoom) / 2, as the code computes it, is at least EPS above
\* minZoom and below maxZoom - EPS.
C3_DoubleTapCycle == MidScaleApart => CycleScales

\* the third double-tap of a run has brought the committed scale back to
\* minZoom from maxZoom
C3_Witness ==
    /\ cycle = 3
    /\ last.op = "doubleTap"
    /\ prev[1] = maxZoom
    /\ committedScale = minZoom

\* C4: when a two-pointer pinch ends with scale factor f the committed scale
\* becomes clamp(committed scale before * f, minZoom, maxZoom) and the live
\* scale is set to the same value; with minZoom = 1, maxZoom = 5 and
\* committed scale 1, factor 10 commits 5 and factor 2 commits exactly 2.
C4_PinchEndCommitsClampedScale ==
    (last.op = "pinchEnd" /\ last.pointers = 2) =>
        /\ committedScale = clamp(Mul(prev[1], last.factor), minZoom, maxZoom)
        /\ scale = committedScale
        /\ (DefaultProps /\ prev[1] = Q(1) /\ last.factor = Q(10))
              => committedScale = Q(5)
        /\ (DefaultProps /\ prev[1] = Q(1) /\ last.factor = Q(2))
              => committedScale = Q(2)

\* a two-pointer pinch with factor 2 has ended at committed scale 2 after an
\* update of the same pinch had set the live scale
C4_Witness ==
    /\ last.op = "pinchEnd"
    /\ last.pointers = 2
    /\ last.factor = Q(2)
    /\ DefaultProps
    /\ prev[1] = Q(1)
    /\ committedScale = Q(2)
    /\ scale = Q(2)

\* C5: whenever the committed scale is at or below minZoom + EPS, a pan
\* update changes neither the live nor the committed translate, and a pan
\* end sets the committed and the live translate to (0, 0), whatever the
\* translation and the release velocity are, and starts no animation.
C5_PanGuardedAtMinZoom ==
    [][(events' = events + 1 /\ Leq(committedScale, Add(minZoom, EPS))) =>
         /\ last'.op = "panUpdate" =>
              /\ <<translateX, translateY>>' = <<translateX, translateY>>
              /\ <<committedTranslateX, committedTranslateY>>'
                   = <<committedTranslateX, committedTranslateY>>
         /\ last'.op = "panEnd" =>
              /\ <<committedTranslateX, committedTranslateY>>' = <<Zero, Zero>>
              /\ <<translateX, translateY>>' = <<Zero, Zero>>
              /\ animations' \subseteq animations
              /\ lastParallel' = lastParallel]_vars

\* a pan has ended at a committed scale above minZoom and within EPS of it,
\* and has reset a committed translate that was not 0
C5_Witness ==
    /\ last.op = "panEnd"
    /\ Lt(minZoom, committedScale)
    /\ Leq(committedScale, Add(minZoom, EPS))
    /\ ~IsZero(prev[2])
    /\ last.xy[1] # Zero
    /\ committedTranslateX = Zero
    /\ translateX = Zero

\* the committed translate after a pan end at committed scale >
\* minZoom + EPS is clamp(clamp(baseline + translation, b) + velocity * 0.3, b)
\* on each axis, b the pan bounds for the committed scale
PanEndFormula ==
    (last.op = "panEnd" /\ Lt(Add(minZoom, EPS), committedScale)) =>
        LET b == PanBounds(committedScale)
            releasedX == clamp(Add(baseline[1], last.xy[1]), b.minX, b.maxX)
            releasedY == clamp(Add(baseline[2], last.xy[2]), b.minY, b.maxY)
            projectedX == Add(releasedX, Mul(last.vel[1], Rat(3, 10)))
            projectedY == Add(releasedY, Mul(last.vel[2], Rat(3, 10)))
        IN  /\ committedTranslateX = clamp(projectedX, b.minX, b.maxX)
            /\ committedTranslateY = clamp(projectedY, b.minY, b.maxY)

\* a pan has just ended with container and content 300 x 300, committed
\* scale 3, translationX = 500 and velocityX = 0
PanEndExample ==
    /\ last.op = "panEnd"
    /\ sizes = <<Q(300), Q(300), Q(300), Q(300)>>
    /\ committedScale = Q(3)
    /\ last.xy[1] = Q(500)
    /\ last.vel[1] = Zero

\* C6 as stated: the formula, and in the example the committed translateX
\* is 300.
C6_Original ==
    /\ PanEndFormula
    /\ PanEndExample => committedTranslateX = Q(300)

\* C6 amended: the formula, and in the example the committed translateX is
\* 300 when the baseline translateX is at least -200.
C6_PanEndCommitsProjectedTarget ==
    /\ PanEndFormula
    /\ (PanEndExample /\ Leq(Q(-200), baseline[1])) =>
         committedTranslateX = Q(300)

\* the pan of the example has ended: sizes 300 x 300, committed scale 3,
\* baseline 0, translationX 500, velocityX 0, committed translateX 300
C6_Witness ==
    /\ last.op = "panEnd"
    /\ sizes = <<Q(300), Q(300), Q(300), Q(300)>>
    /\ committedScale = Q(3)
    /\ baseline[1] = Zero
    /\ last.xy[1] = Q(500)
    /\ last.vel[1] = Zero
    /\ committedTranslateX = Q(300)

PinchOps == {"pinchStart", "pinchUpdate", "pinchEnd"}

\* the step leaves the committed and the live values and the animation in
\* flight as they are
Ignored ==
    /\ committed' = committed
    /\ live' = live
    /\ animations' = animations
    /\ lastParallel' = lastParallel

\* C7 as stated: a pinch start, update or end whose pointer count is not 2
\* leaves the committed and the live scale and translate and the animation
\* in flight unchanged.
C7_Original ==
    [][(events' = events + 1 /\ last'.op \in PinchOps /\ last'.pointers # 2)
          => Ignored]_vars

\* C7 amended: a pinch start or update whose pointer count is not 2 leaves
\* them unchanged; a pinch end is processed whatever its pointer count: it
\* commits clamp(committed scale * f, minZoom, maxZoom) and the committed
\* translate clamped to the bounds for that scale, and sets the live values
\* to the committed ones.
C7_PinchPointerGuard ==
    [][(events' = events + 1 /\ last'.op \in PinchOps /\ last'.pointers # 2) =>
         /\ last'.op \in {"pinchStart", "pinchUpdate"} => Ignored
         /\ last'.op = "pinchEnd" =>
              LET b == PanBounds(committedScale')
              IN  /\ committedScale' =
                       clamp(Mul(committedScale, last'.factor), minZoom, maxZoom)
                  /\ committedTranslateX' =
                       clamp(committedTranslateX, b.minX, b.maxX)
                  /\ committedTranslateY' =
                       clamp(committedTranslateY, b.minY, b.maxY)
                  /\ live' = committed']_vars

\* a one-pointer pinch update has been ignored while a double-tap animation
\* was in flight and the live scale had not reached the committed one
C7_Witness ==
    /\ last.op = "pinchUpdate"
    /\ last.pointers = 1
    /\ animations # {}
    /\ scale # committedScale

\* the tap position of the event is the container center, or absent
AtCenter(position) ==
    /\ position[1] = Undefined \/ Eq(position[1], Div(containerWidthPx, Q(2)))
    /\ position[2] = Undefined \/ Eq(position[2], Div(containerHeightPx, Q(2)))

CenterTap == last.op = "doubleTap" /\ last.ok /\ AtCenter(last.xy)

\* targetScale / committed scale before the tap
TapRatio == Div(committedScale, prev[1])

\* C8 as stated: after a double-tap at the container center, or with no
\* position, the committed translate equals ratio * committed translate
\* before the tap on each axis, ratio = targetScale / committed scale before.
C8_Original ==
    CenterTap =>
        /\ Eq(committedTranslateX, Mul(TapRatio, prev[2]))
        /\ Eq(committedTranslateY, Mul(TapRatio, prev[3]))

\* C8 amended: it equals ratio * committed translate before the tap clamped
\* to the pan bounds for the target scale.
C8_CenterTapScalesTranslate ==
    CenterTap =>
        LET b == PanBounds(committedScale)
        IN  /\ Eq(committedTranslateX,
                  clamp(Mul(TapRatio, prev[2]), b.minX, b.maxX))
            /\ Eq(committedTranslateY,
                  clamp(Mul(TapRatio, prev[3]), b.minY, b.maxY))

\* a double-tap at the center has zoomed in from a committed translate that
\* was not 0 and has scaled it by the ratio, which the bounds for the target
\* scale admit
C8_Witness ==
    /\ CenterTap
    /\ Lt(prev[1], committedScale)
    /\ ~IsZero(prev[2])
    /\ ~Eq(committedTranslateX, prev[2])
    /\ Eq(committedTranslateX, Mul(TapRatio, prev[2]))

LayoutOps == {"containerLayout", "contentLayout"}

\* C9: the second of two identical size reports in a row (container or
\* content) changes neither the committed nor the live scale and translate.
C9_SameLayoutTwiceIdempotent ==
    [][(/\ events' = events + 1
        /\ last'.op \in LayoutOps
        /\ last.op = last'.op
        /\ last.xy = last'.xy)
          => (committed' = committed /\ live' = live)]_vars

\* a content size has been reported twice in a row, the first report having
\* clamped a committed translate to the new bounds
C9_Witness ==
    /\ last.op = "contentLayout"
    /\ last.repeat
    /\ contentWidthPx = Zero
    /\ Lt(Add(minZoom, EPS), committedScale)
    /\ IsZero(committedTranslateX)
    /\ ~IsZero(committedTranslateY)
    /\ <<translateX, translateY>> = <<committedTranslateX, committedTranslateY>>

\* scales of [minZoom, maxZoom] the bounds are computed for
ScaleSamples == {minZoom, Div(Add(minZoom, maxZoom), Q(2)), maxZoom,
                 committedScale}

ZeroRangeX(s) == Eq(PanBounds(s).minX, Zero) /\ Eq(PanBounds(s).maxX, Zero)

ZeroRangeY(s) == Eq(PanBounds(s).minY, Zero) /\ Eq(PanBounds(s).maxY, Zero)

\* C10 as stated: whenever the container size or the content size is zero
\* (on an axis), the pan bounds (of that axis) are the zero range for every
\* scale in [minZoom, maxZoom] and the committed translate is 0.
C10_Original ==
    /\ (containerWidthPx = Zero \/ contentWidthPx = Zero) =>
          /\ \A s \in ScaleSamples : ZeroRangeX(s)
          /\ IsZero(committedTranslateX)
    /\ (containerHeightPx = Zero \/ contentHeightPx = Zero) =>
          /\ \A s \in ScaleSamples : ZeroRangeY(s)
          /\ IsZero(committedTranslateY)

\* C10 amended: whenever the content size is zero (on an axis) they are the
\* zero range and the committed translate is 0; when only the container size
\* is zero the bounds are -+ content size * scale / 2.
C10_ZeroContentCollapsesBounds ==
    /\ contentWidthPx = Zero =>
          /\ \A s \in ScaleSamples : ZeroRangeX(s)
          /\ IsZero(committedTranslateX)
    /\ contentHeightPx = Zero =>
          /\ \A s \in ScaleSamples : ZeroRangeY(s)
          /\ IsZero(committedTranslateY)
    /\ containerWidthPx = Zero =>
          \A s \in ScaleSamples :
              Eq(PanBounds(s).maxX, Div(Mul(contentWidthPx, s), Q(2)))
    /\ containerHeightPx = Zero =>
          \A s \in ScaleSamples :
              Eq(PanBounds(s).maxY, Div(Mul(contentHeightPx, s), Q(2)))

\* with a content of width 0 and height 200 a pan has ended above minimum
\* zoom: the committed translateX is 0, the committed translateY is not
C10_Witness ==
    /\ last.op = "panEnd"
    /\ Lt(Add(minZoom, EPS), committedScale)
    /\ contentWidthPx = Zero
    /\ contentHeightPx = Q(200)
    /\ last.xy[1] # Zero
    /\ IsZero(committedTranslateX)
    /\ ~IsZero(committedTranslateY)

\* C11: while no content size has been reported (the content size is
\* 0 x 0; a report never is), the committed and the live translate are
\* (0, 0), whatever container size reports, pinch, pan and double-tap events
\* have been processed.
C11_NoContentNoTranslate ==
    (contentWidthPx = Zero /\ contentHeightPx = Zero) =>
        /\ Eq(committedTranslateX, Zero) /\ Eq(committedTranslateY, Zero)
        /\ Eq(translateX, Zero) /\ Eq(translateY, Zero)

\* with a measured container and no content size a pan above minimum zoom
\* has ended with a translation and a velocity that are not 0, and the
\* translate is (0, 0)
C11_Witness ==
    /\ contentWidthPx = Zero /\ contentHeightPx = Zero
    /\ containerWidthPx = Q(300)
    /\ last.op = "panEnd"
    /\ Lt(Add(minZoom, EPS), committedScale)
    /\ last.xy[1] # Zero /\ last.vel[1] # Zero
    /\ IsZero(committedTranslateX) /\ IsZero(committedTranslateY)
    /\ IsZero(translateX) /\ IsZero(translateY)

\* C12: a double-tap end that reports failure leaves the committed and the
\* live scale and translate unchanged and neither stops nor replaces the
\* animation in flight.
C12_FailedDoubleTapIgnored ==
    [][(events' = events + 1 /\ last'.op = "doubleTap" /\ ~last'.ok)
          => Ignored]_vars

\* a failed double-tap has been processed while the animation of an earlier
\* double-tap was in flight, the live scale not yet at the committed one
C12_Witness ==
    /\ last.op = "doubleTap"
    /\ ~last.ok
    /\ animations # {}
    /\ scale # committedScale

\* C13: pan begin stops and discards the animation in progress: a frame
\* that follows a pan begin (a frame of an animation started before it)
\* does not write the live scale or translate.  The handler only stores the
\* baseline, so the animation runs on.
C13_PanBeginStopsAnimation ==
    [][(last.op = "panBegin" /\ last'.op = "frame") => live' = live]_vars

\* C14: in every reachable state at most one composite animation is in
\* flight: when a pan end or a successful double-tap starts one, the ones
\* started before have completed or been stopped.
C14_AtMostOneAnimation == Cardinality(animations) <= 1

\* a pan end has started the inertia animation while a double-tap animation
\* was in flight: the only animation is the one of the pan, and the live
\* scale has stopped short of the committed scale
C14_Witness ==
    /\ last.op = "panEnd"
    /\ Cardinality(animations) = 1
    /\ \A a \in animations : a.vals = {"translateX", "translateY"} /\ a.id = lastParallel
    /\ scale # committedScale

\* the animations in flight were all started by the event processed last
StartedByLast ==
    \A a \in animations :
        /\ a.id = lastParallel
        /\ ~a.half
        /\ a.to = committed
        /\ a.from = live

\* C15: once a pinch start with two pointers has been processed no animation
\* is in flight, and once a successful double-tap end has been processed the
\* only animation in flight is the one it started, so no frame of an
\* animation started earlier writes a live value.
C15_GestureStartStopsAnimations ==
    /\ (last.op = "pinchStart" /\ last.pointers = 2) =>
          (animations = {} /\ lastParallel = 0)
    /\ (last.op = "doubleTap" /\ last.ok) =>
          (Cardinality(animations) = 1 /\ StartedByLast)

\* a two-pointer pinch start has stopped a double-tap animation after its
\* frame at half of the duration: the live scale is between the scale the
\* animation started from and the committed scale
C15_Witness ==
    /\ last.op = "pinchStart"
    /\ last.pointers = 2
    /\ animations = {}
    /\ Lt(minZoom, scale)
    /\ Lt(scale, committedScale)

\* a two-pointer pinch update or a pinch end is being processed
PinchWrite ==
    /\ events' = events + 1
    /\ \/ last'.op = "pinchUpdate" /\ last'.pointers = 2
       \/ last'.op = "pinchEnd"

\* the scale the step writes: the live scale (update), the committed and the
\* live scale (end)
WrittenScale(value) ==
    /\ scale' = value
    /\ last'.op = "pinchEnd" => committedScale' = value

\* C16 as stated: the scale a pinch update or end writes is
\* clamp(s0 * factor, minZoom, maxZoom), s0 the committed scale when that
\* pinch started, for every interleaving with pan and double-tap events.
C16_Original ==
    [][PinchWrite =>
         WrittenScale(clamp(Mul(pinchStartScale, last'.factor),
                              minZoom, maxZoom))]_vars

\* C16 amended: it is clamp(s * factor, minZoom, maxZoom), s the committed
\* scale when the event is processed; s is s0 unless a successful double-tap
\* was processed since the pinch started, and successive updates do not
\* compound.
C16_PinchScaleFromCommitted ==
    [][PinchWrite =>
         /\ WrittenScale(clamp(Mul(committedScale, last'.factor),
                                 minZoom, maxZoom))
         /\ last'.op = "pinchUpdate" => committedScale' = committedScale]_vars

\* a two-pointer update has been processed after a double-tap of the same
\* pinch session changed the committed scale: the live scale is relative to
\* the committed scale, not to the one at the pinch start
C16_Witness ==
    /\ last.op = "pinchUpdate"
    /\ last.pointers = 2
    /\ pinchActive
    /\ pinchStartScale # committedScale
    /\ scale = clamp(Mul(committedScale, last.factor), minZoom, maxZoom)
    /\ scale # clamp(Mul(pinchStartScale, last.factor), minZoom, maxZoom)

\* no pinch between start and end, no pan between begin and end
NoGesture == ~pinchActive /\ panState = "idle"

\* C17: in every reachable state with no gesture session active and no
\* animation in flight the live scale and translate equal the committed
\* ones.  A size report that arrives while a double-tap animation is in
\* flight stops the animation (setValue on the translate) and leaves the
\* live scale where the animation had driven it.
C17_LiveEqualsCommittedWhenIdle ==
    (NoGesture /\ animations = {}) => live = committed

\* the step is the last frame of the animation in flight: the live translate
\* (and the live scale, if the animation drives it) is at the committed value,
\* which is the target committed when the animation started
SettleStep ==
    (last'.op = "frame" /\ animations' = {}) =>
        \A a \in animations :
            /\ a.to[2] = committedTranslateX /\ a.to[3] = committedTranslateY
            /\ translateX' = committedTranslateX
            /\ translateY' = committedTranslateY
            /\ "scale" \in a.vals =>
                  (a.to[1] = committedScale /\ scale' = committedScale)

\* C18: an animation started by a pan end above the minimum-zoom guard or by
\* a successful double-tap does not stay in flight for ever, and when its
\* last frame ends it (no event having stopped it) the live translate, and
\* for a double-tap the live scale, equals the committed target.
C18_AnimationSettles ==
    /\ []<>(animations = {})
    /\ [][SettleStep]_vars

\* the last frame of a double-tap animation has brought the live values to
\* a committed scale above minZoom and a committed translate that is not 0
C18_Witness ==
    /\ last.op = "frame"
    /\ animations = {}
    /\ live = committed
    /\ Lt(minZoom, scale)
    /\ ~IsZero(translateX)

\* C19: a step changes a committed value only if it is a pinch end, a pan
\* end, a successful double-tap or a size report; a pinch start, a pinch
\* update, a pan begin, a pan update and an animation frame leave the
\* committed scale, the committed translate and the stored sizes unchanged.
C19_CommittedWrittenOnlyOnEnd ==
    [][/\ committed' # committed =>
            \/ last'.op \in {"pinchEnd", "panEnd", "containerLayout",
                             "contentLayout"}
            \/ last'.op = "doubleTap" /\ last'.ok
       /\ last'.op \in {"pinchStart", "pinchUpdate", "panBegin", "panUpdate",
                        "frame"} =>
            committed' = committed /\ sizes' = sizes]_vars

\* a pan update above the minimum-zoom guard has moved the live translate
\* away from the committed translate, which is the one before the update
C19_Witness ==
    /\ last.op = "panUpdate"
    /\ ~AtMinZoom
    /\ ~Eq(translateX, committedTranslateX)
    /\ committed = prev

\* the step re-clamps the committed translate into the bounds of the sizes
\* stored after it, at the committed scale, and writes the result to the
\* committed and the live translate; both scales stay as they are
ReclampedStep ==
    LET b == computePanBounds(containerWidthPx', containerHeightPx',
                              contentWidthPx', contentHeightPx', committedScale)
    IN  /\ committedTranslateX' = clamp(committedTranslateX, b.minX, b.maxX)
        /\ committedTranslateY' = clamp(committedTranslateY, b.minY, b.maxY)
        /\ translateX' = committedTranslateX'
        /\ translateY' = committedTranslateY'
        /\ committedScale' = committedScale
        /\ scale' = scale

\* C20: a container size report stores the reported container size and
\* keeps the content size, a content size report stores the reported content
\* size and keeps the container size, and either sets the committed and the
\* live translate to clamp(committed translate, bounds(stored sizes,
\* committed scale)) and leaves the committed and the live scale unchanged.
C20_LayoutReclamps ==
    [][/\ (events' = events + 1 /\ last'.op = "containerLayout") =>
            /\ <<containerWidthPx', containerHeightPx'>> = last'.xy
            /\ <<contentWidthPx', contentHeightPx'>> =
                   <<contentWidthPx, contentHeightPx>>
            /\ ReclampedStep
       /\ (events' = events + 1 /\ last'.op = "contentLayout") =>
            /\ <<contentWidthPx', contentHeightPx'>> = last'.xy
            /\ <<containerWidthPx', containerHeightPx'>> =
                   <<containerWidthPx, containerHeightPx>>
            /\ ReclampedStep]_vars

\* a container size report that arrived after the content size report has
\* moved the committed and the live translate to the edge of the new bounds,
\* which is not 0, at a scale above minZoom
C20_Witness ==
    /\ last.op = "containerLayout"
    /\ contentWidthPx # Zero
    /\ ~Eq(prev[2], committedTranslateX)
    /\ ~IsZero(committedTranslateX)
    /\ translateX = committedTranslateX
    /\ \/ Eq(committedTranslateX, PanBounds(committedScale).minX)
       \/ Eq(committedTranslateX, PanBounds(committedScale).maxX)
    /\ Lt(minZoom, committedScale)

\* the target scale the claim states for committed scale s
StatedTargetScale(s) ==
    IF Lt(MathAbs(Sub(s, minZoom)), EPS) THEN Div(Add(minZoom, maxZoom), Q(2))
    ELSE IF Lt(s, Sub(maxZoom, EPS)) THEN maxZoom
    ELSE minZoom

\* the offset of a tap coordinate from the centre of a container side; an
\* absent coordinate is the centre
TapOffset(coordinate, side) ==
    IF coordinate = Undefined THEN Zero ELSE Sub(coordinate, Div(side, Q(2)))

\* clamp(tapOffset - (targetScale / s) * (tapOffset - committedTranslate))
StatedTargetTranslate(tapOffset, targetScale, s, committedTranslate, min, max) ==
    clamp(Sub(tapOffset, Mul(Div(targetScale, s),
                             Sub(tapOffset, committedTranslate))), min, max)

\* C21: the step of a successful double-tap commits the target scale
\* (the middle of the range from minZoom, else maxZoom below maxZoom, else
\* minZoom) and the focal translate clamped into the bounds of the target
\* scale, and writes no live value: the commit precedes every frame.
C21_DoubleTapCommitsTarget ==
    [][(events' = events + 1 /\ last'.op = "doubleTap" /\ last'.ok) =>
          LET s == committedScale
              targetScale == StatedTargetScale(s)
              b == computePanBounds(containerWidthPx, containerHeightPx,
                                    contentWidthPx, contentHeightPx, targetScale)
              tapX == TapOffset(last'.xy[1], containerWidthPx)
              tapY == TapOffset(last'.xy[2], containerHeightPx)
          IN  /\ Eq(committedScale', targetScale)
              /\ Eq(committedTranslateX',
                    StatedTargetTranslate(tapX, targetScale, s,
                                          committedTranslateX, b.minX, b.maxX))
              /\ Eq(committedTranslateY',
                    StatedTargetTranslate(tapY, targetScale, s,
                                          committedTranslateY, b.minY, b.maxY))
              /\ live' = live]_vars

\* a successful double-tap off the centre, from a committed scale strictly
\* between minZoom and maxZoom, has committed maxZoom and a translate that
\* is not 0 while the live scale has not moved
C21_Witness ==
    /\ last.op = "doubleTap" /\ last.ok
    /\ last.xy[1] # Undefined
    /\ Lt(minZoom, prev[1])
    /\ Lt(prev[1], maxZoom)
    /\ committedScale = maxZoom
    /\ scale # committedScale
    /\ ~IsZero(committedTranslateX)
    /\ ~Eq(committedTranslateX, prev[2])
    /\ animations # {}

\* the translate <<x, y>> lies within the bounds b
WithinBounds(x, y, b) ==
    /\ Within(x, b.minX, b.maxX)
    /\ Within(y, b.minY, b.maxY)

\* the live translate lies within the pan bounds of the stored sizes at
\* scale scaleValue
LiveTranslateWithin(scaleValue) ==
    WithinBounds(translateX, translateY, PanBounds(scaleValue))

\* C22 as stated: in every reachable state with no animation in flight the
\* live translate lies within the pan bounds computed for the live scale
\* and the latest sizes, also while a pinch and a pan session are active
\* together and their updates interleave.  A pan update clamps into the
\* bounds of the committed scale, which are wider than those of the smaller
\* live scale a pinch update wrote.
C22_Original == animations = {} => LiveTranslateWithin(scale)

\* C22 amended: in every reachable state with no animation in flight, no
\* pinch session active and the live scale equal to the committed scale, the
\* live translate lies within the pan bounds computed for the live scale and
\* the latest sizes, also while a pan session is active.  While a pinch
\* session is active the last writer decides: once a two-pointer pinch
\* update has been processed no animation is in flight and the live
\* translate is within the bounds for the live scale; once a pan update
\* above the minimum-zoom guard has been processed no animation is in flight
\* and it is within the bounds for the committed scale.
C22_LastWriterBoundsLiveTranslate ==
    /\ (animations = {} /\ ~pinchActive /\ Eq(scale, committedScale)) =>
          LiveTranslateWithin(scale)
    /\ (last.op = "pinchUpdate" /\ last.pointers = 2) =>
          (animations = {} /\ LiveTranslateWithin(scale))
    /\ (last.op = "panUpdate" /\ ~AtMinZoom) =>
          (animations = {} /\ LiveTranslateWithin(committedScale))

\* a pinch and a pan session are active together, a two-pointer pinch update
\* has halved the live scale and the pan update processed after it has
\* written a live translate that is within the bounds of the committed scale
\* and outside those of the live scale, with no animation in flight
C22_Witness ==
    /\ last.op = "panUpdate"
    /\ pinchActive /\ panState = "active"
    /\ animations = {}
    /\ scale = PinchScale(Rat(1, 2))
    /\ Lt(scale, committedScale)
    /\ LiveTranslateWithin(committedScale)
    /\ ~LiveTranslateWithin(scale)

=============================================================================
